---- MODULE Spec2Model ----
(***************************************************************************)
(* Superdense coding notebook (2_quantum_information/superdense_coding).   *)
(*                                                                         *)
(* The notebook is a linear script of seven code cells.  The model keeps   *)
(* the script position, the circuit object "superdense" as the ordered     *)
(* list of operations appended to it, the printed OPENQASM text, and the   *)
(* execution job (shots run so far, classical register, counts) up to the  *)
(* result dictionary and the plotted histogram.                            *)
(*                                                                         *)
(* Amplitudes are exact: a two-qubit state is a vector of integers amp     *)
(* together with an exponent k, standing for amp / (sqrt 2)^k.  Signs are  *)
(* kept; no global phase is divided out.                                   *)
(*                                                                         *)
(* The notebook as committed encodes message 11; the branches for the      *)
(* other messages are the commented alternatives of the encoding cell      *)
(* (the comment lines name the circuit "shared" and label the Z branch     *)
(* "01"; the prose of the cell above assigns I, X, Z, XZ to 00, 01, 10,    *)
(* 11).  The message is the edit state of that cell, fixed before a run.   *)
(***************************************************************************)
EXTENDS Integers, Sequences, FiniteSets, TLC

VARIABLES pc, pyver, message, taken, circuit, qasm, shots, shotsDone,
          creg, counts, result, histogram

vars == <<pc, pyver, message, taken, circuit, qasm, shots, shotsDone,
          creg, counts, result, histogram>>

(***************************************************************************)
(* Bounds and program constants                                            *)
(***************************************************************************)
MaxShots == 3

MaxMinor == 6

NotebookShots == 1024

MinMajor == 3

MinMinor == 5

NumQubits == 2

Qubits == 0 .. (NumQubits - 1)

Bit == {0, 1}

Messages == {<<0, 0>>, <<0, 1>>, <<1, 0>>, <<1, 1>>}

Versions == {<<maj, min>> : maj \in 2 .. 3, min \in 4 .. MaxMinor}

ShotChoices == (1 .. MaxShots) \cup {NotebookShots}

(***************************************************************************)
(* Circuit operations                                                      *)
(***************************************************************************)
Op(name, qargs, cargs) == [name |-> name, qargs |-> qargs, cargs |-> cargs]

HGate(q) == Op("h", <<q>>, <<>>)

XGate(q) == Op("x", <<q>>, <<>>)

ZGate(q) == Op("z", <<q>>, <<>>)

CnotGate(ctl, tgt) == Op("cx", <<ctl, tgt>>, <<>>)

Barrier == Op("barrier", <<0, 1>>, <<>>)

Measure(q, c) == Op("measure", <<q>>, <<c>>)

(***************************************************************************)
(* Exact state vectors                                                     *)
(***************************************************************************)
Basis == [Qubits -> Bit]

Ket(a, b) == [q \in Qubits |-> IF q = 0 THEN a ELSE b]

Flip(s, q) == [s EXCEPT ![q] = 1 - s[q]]

SetBit(s, q, v) == [s EXCEPT ![q] = v]

RECURSIVE Pow2(_)
Pow2(n) == IF n = 0 THEN 1 ELSE 2 * Pow2(n - 1)

RECURSIVE Reduce(_)
Reduce(st) ==
    IF st.k >= 2 /\ \A s \in Basis : st.amp[s] % 2 = 0
    THEN Reduce([amp |-> [s \in Basis |-> st.amp[s] \div 2], k |-> st.k - 2])
    ELSE st

ZeroState == [amp |-> [s \in Basis |-> IF s = Ket(0, 0) THEN 1 ELSE 0], k |-> 0]

ApplyH(st, q) ==
    Reduce([amp |-> [s \in Basis |->
                       st.amp[SetBit(s, q, 0)]
                       + (IF s[q] = 1 THEN -1 ELSE 1) * st.amp[SetBit(s, q, 1)]],
            k |-> st.k + 1])

ApplyX(st, q) == [st EXCEPT !.amp = [s \in Basis |-> st.amp[Flip(s, q)]]]

ApplyZ(st, q) ==
    [st EXCEPT !.amp = [s \in Basis |-> IF s[q] = 1 THEN -st.amp[s] ELSE st.amp[s]]]

ApplyCnot(st, ctl, tgt) ==
    [st EXCEPT !.amp = [s \in Basis |->
                          st.amp[IF s[ctl] = 1 THEN Flip(s, tgt) ELSE s]]]

ApplyOp(st, op) ==
    CASE op.name = "h" -> ApplyH(st, op.qargs[1])
      [] op.name = "x" -> ApplyX(st, op.qargs[1])
      [] op.name = "z" -> ApplyZ(st, op.qargs[1])
      [] op.name = "cx" -> ApplyCnot(st, op.qargs[1], op.qargs[2])
      [] OTHER -> st

RECURSIVE Evolve(_, _)
Evolve(st, ops) ==
    IF ops = <<>> THEN st ELSE Evolve(ApplyOp(st, Head(ops)), Tail(ops))

Simulate(ops) == Evolve(ZeroState, ops)

Possible(st) == {s \in Basis : st.amp[s] # 0}

Certain(st, s) == st.amp[s] * st.amp[s] = Pow2(st.k)

InnerProduct(st1, st2) ==
    LET a == Ket(0, 0)
        b == Ket(0, 1)
        c == Ket(1, 0)
        d == Ket(1, 1)
    IN  st1.amp[a] * st2.amp[a] + st1.amp[b] * st2.amp[b]
        + st1.amp[c] * st2.amp[c] + st1.amp[d] * st2.amp[d]

Project(st, q, v) ==
    [st EXCEPT !.amp = [s \in Basis |-> IF s[q] = v THEN st.amp[s] ELSE 0]]

RECURSIVE Outcomes(_, _, _)
Outcomes(st, cr, ops) ==
    IF ops = <<>> THEN {cr}
    ELSE LET op == Head(ops)
         IN  IF op.name = "measure"
             THEN UNION {Outcomes(Project(st, op.qargs[1], v),
                                  [cr EXCEPT ![op.cargs[1]] = v], Tail(ops)) :
                         v \in {b \in Bit :
                                  Possible(Project(st, op.qargs[1], b)) # {}}}
             ELSE Outcomes(ApplyOp(st, op), cr, Tail(ops))

ZeroCreg == [c \in Qubits |-> 0]

CountsKey(cr) == <<cr[1], cr[0]>>

AddCount(cnt, key) ==
    IF key \in DOMAIN cnt THEN [cnt EXCEPT ![key] = @ + 1] ELSE cnt @@ (key :> 1)

(***************************************************************************)
(* The cells of the script                                                 *)
(***************************************************************************)
VersionTooOld_Inclusive(v) == v[1] < MinMajor \/ (v[1] = MinMajor /\ v[2] <= MinMinor)

VersionTooOld(v) == v[1] < MinMajor \/ (v[1] = MinMajor /\ v[2] < MinMinor)

EntangleOps_Reversed == <<HGate(0), CnotGate(1, 0)>>

EntangleOps == <<HGate(0), CnotGate(0, 1)>>

Branches == <<"00", "01", "10", "11">>

BranchSelected_Overlap(b, m) ==
    \/ b = "00" /\ m = <<0, 0>>
    \/ b = "01" /\ m = <<0, 1>>
    \/ b = "10" /\ m[1] = 1
    \/ b = "11" /\ m = <<1, 1>>

BranchSelected(b, m) ==
    \/ b = "00" /\ m = <<0, 0>>
    \/ b = "01" /\ m = <<0, 1>>
    \/ b = "10" /\ m = <<1, 0>>
    \/ b = "11" /\ m = <<1, 1>>

BranchGates_XThenZ(b) ==
    CASE b = "00" -> <<>>
      [] b = "01" -> <<XGate(0)>>
      [] b = "10" -> <<ZGate(0)>>
      [] b = "11" -> <<XGate(0), ZGate(0)>>

BranchGates_NoPhase(b) ==
    CASE b = "00" -> <<>>
      [] b = "01" -> <<XGate(0)>>
      [] b = "10" -> <<>>
      [] b = "11" -> <<XGate(0)>>

BranchGates_Touch00(b) ==
    CASE b = "00" -> <<ZGate(0)>>
      [] b = "01" -> <<XGate(0)>>
      [] b = "10" -> <<ZGate(0)>>
      [] b = "11" -> <<ZGate(0), XGate(0)>>

BranchGates_OnBob(b) ==
    CASE b = "00" -> <<>>
      [] b = "01" -> <<XGate(1)>>
      [] b = "10" -> <<ZGate(0)>>
      [] b = "11" -> <<ZGate(0), XGate(0)>>

BranchGates_TwiceZ(b) ==
    CASE b = "00" -> <<>>
      [] b = "01" -> <<XGate(0)>>
      [] b = "10" -> <<ZGate(0)>>
      [] b = "11" -> <<ZGate(0), ZGate(0)>>

BranchGates(b) ==
    CASE b = "00" -> <<>>
      [] b = "01" -> <<XGate(0)>>
      [] b = "10" -> <<ZGate(0)>>
      [] b = "11" -> <<ZGate(0), XGate(0)>>

RECURSIVE EncodingFrom(_, _)
EncodingFrom(i, m) ==
    IF i > Len(Branches) THEN <<>>
    ELSE (IF BranchSelected(Branches[i], m) THEN BranchGates(Branches[i]) ELSE <<>>)
         \o EncodingFrom(i + 1, m)

EncodingOps(m) == EncodingFrom(1, m)

DecodeOps_SwappedBits == <<CnotGate(0, 1), HGate(0), Measure(0, 1), Measure(1, 0)>>

DecodeOps_NoH == <<CnotGate(0, 1), Measure(0, 0), Measure(1, 1)>>

DecodeOps_MeasureFirst == <<CnotGate(0, 1), Measure(0, 0), HGate(0), Measure(1, 1)>>

DecodeOps == <<CnotGate(0, 1), HGate(0), Measure(0, 0), Measure(1, 1)>>

QasmArg(reg, i) == reg \o "[" \o ToString(i) \o "]"

QasmLine(op) ==
    CASE op.name = "measure" ->
            "measure " \o QasmArg("q", op.qargs[1]) \o " -> "
            \o QasmArg("c", op.cargs[1]) \o ";"
      [] Len(op.qargs) = 2 ->
            op.name \o " " \o QasmArg("q", op.qargs[1]) \o ","
            \o QasmArg("q", op.qargs[2]) \o ";"
      [] OTHER -> op.name \o " " \o QasmArg("q", op.qargs[1]) \o ";"

QasmHeader ==
    <<"OPENQASM 2.0;", "include \"qelib1.inc\";",
      "qreg q[" \o ToString(NumQubits) \o "];",
      "creg c[" \o ToString(NumQubits) \o "];">>

GetQasm(ops) == QasmHeader \o [i \in 1 .. Len(ops) |-> QasmLine(ops[i])]

Init ==
    /\ pc = "setup"
    /\ pyver \in Versions
    /\ message \in Messages
    /\ taken = {}
    /\ circuit = <<>>
    /\ qasm = <<>>
    /\ shots = 0
    /\ shotsDone = 0
    /\ creg = ZeroCreg
    /\ counts = <<>>
    /\ result = <<>>
    /\ histogram = <<>>

SetupAbort ==
    /\ pc = "setup"
    /\ VersionTooOld(pyver)
    /\ pc' = "aborted"
    /\ UNCHANGED <<pyver, message, taken, circuit, qasm, shots, shotsDone,
                   creg, counts, result, histogram>>

Setup ==
    /\ pc = "setup"
    /\ ~VersionTooOld(pyver)
    /\ pc' = "entangle"
    /\ UNCHANGED <<pyver, message, taken, circuit, qasm, shots, shotsDone,
                   creg, counts, result, histogram>>

Entangle ==
    /\ pc = "entangle"
    /\ circuit' = EntangleOps
    /\ pc' = "encode"
    /\ UNCHANGED <<pyver, message, taken, qasm, shots, shotsDone,
                   creg, counts, result, histogram>>

Encode ==
    /\ pc = "encode"
    /\ taken' = {Branches[i] : i \in {j \in 1 .. Len(Branches) :
                                        BranchSelected(Branches[j], message)}}
    /\ circuit' = circuit \o EncodingOps(message) \o <<Barrier>>
    /\ pc' = "decode"
    /\ UNCHANGED <<pyver, message, qasm, shots, shotsDone,
                   creg, counts, result, histogram>>

Decode ==
    /\ pc = "decode"
    /\ circuit' = circuit \o DecodeOps
    /\ pc' = "print"
    /\ UNCHANGED <<pyver, message, taken, qasm, shots, shotsDone,
                   creg, counts, result, histogram>>

PrintQasm ==
    /\ pc = "print"
    /\ qasm' = GetQasm(circuit)
    /\ pc' = "execute"
    /\ UNCHANGED <<pyver, message, taken, circuit, shots, shotsDone,
                   creg, counts, result, histogram>>

Execute ==
    /\ pc = "execute"
    /\ \E n \in ShotChoices : shots' = n
    /\ shotsDone' = 0
    /\ counts' = <<>>
    /\ pc' = "executing"
    /\ UNCHANGED <<pyver, message, taken, circuit, qasm, creg, result, histogram>>

RunShot ==
    /\ pc = "executing"
    /\ shotsDone < shots
    /\ \E cr \in Outcomes(ZeroState, ZeroCreg, circuit) :
          /\ creg' = cr
          /\ counts' = AddCount(counts, CountsKey(cr))
    /\ shotsDone' = shotsDone + 1
    /\ UNCHANGED <<pc, pyver, message, taken, circuit, qasm, shots, result,
                   histogram>>

ExecuteReturn ==
    /\ pc = "executing"
    /\ shotsDone = shots
    /\ result' = <<counts>>
    /\ pc' = "plot"
    /\ UNCHANGED <<pyver, message, taken, circuit, qasm, shots, shotsDone,
                   creg, counts, histogram>>

ExecuteFail_Retry ==
    /\ pc = "executing"
    /\ pc' = "execute"
    /\ UNCHANGED <<pyver, message, taken, circuit, qasm, shots, shotsDone,
                   creg, counts, result, histogram>>

ExecuteFail ==
    /\ pc = "executing"
    /\ pc' = "failed"
    /\ UNCHANGED <<pyver, message, taken, circuit, qasm, shots, shotsDone,
                   creg, counts, result, histogram>>

PlotHistogram_Early ==
    /\ pc = "executing"
    /\ histogram' = <<counts>>
    /\ pc' = "done"
    /\ UNCHANGED <<pyver, message, taken, circuit, qasm, shots, shotsDone,
                   creg, counts, result>>

PlotHistogram ==
    /\ pc = "plot"
    /\ histogram' = <<result[1]>>
    /\ pc' = "done"
    /\ UNCHANGED <<pyver, message, taken, circuit, qasm, shots, shotsDone,
                   creg, counts, result>>

Next ==
    \/ SetupAbort
    \/ Setup
    \/ Entangle
    \/ Encode
    \/ Decode
    \/ PrintQasm
    \/ Execute
    \/ RunShot
    \/ ExecuteReturn
    \/ ExecuteFail
    \/ PlotHistogram

Spec == Init /\ [][Next]_vars

(***************************************************************************)
(* Vocabulary of the properties                                            *)
(***************************************************************************)
Encoded == pc \notin {"setup", "aborted", "entangle", "encode"}

Built == pc \in {"print", "execute", "executing", "plot", "done", "failed"}

MessageKet == Ket(message[1], message[2])

MessageCreg == [c \in Qubits |-> message[c + 1]]

BarrierIndex == CHOOSE i \in 1 .. Len(circuit) : circuit[i].name = "barrier"

EncodingSegment == SubSeq(circuit, Len(EntangleOps) + 1, BarrierIndex - 1)

SharedState == Simulate(SubSeq(circuit, 1, Len(EntangleOps)))

PostEncodingState == Simulate(SubSeq(circuit, 1, BarrierIndex))

RawCircuit ==
    SubSeq(circuit, 1, Len(EntangleOps)) \o SubSeq(circuit, BarrierIndex + 1, Len(circuit))

Vec(a00, a01, a10, a11, k) ==
    [amp |-> [s \in Basis |->
                CASE s = Ket(0, 0) -> a00
                  [] s = Ket(0, 1) -> a01
                  [] s = Ket(1, 0) -> a10
                  [] s = Ket(1, 1) -> a11],
     k |-> k]

(***************************************************************************)
(* C1: for every message, entangle, encode, decode and measure gives the   *)
(* message with probability 1: the final state has its whole weight on     *)
(* |m1_A m2_B>, every other amplitude is 0, the only possible content of   *)
(* the classical register is c[0] = m1, c[1] = m2, and every shot run      *)
(* leaves exactly that in the register.                                    *)
(***************************************************************************)
C1_DecodesToMessage ==
    /\ Built =>
         /\ Certain(Simulate(circuit), MessageKet)
         /\ \A s \in Basis \ {MessageKet} : Simulate(circuit).amp[s] = 0
         /\ Outcomes(ZeroState, ZeroCreg, circuit) = {MessageCreg}
    /\ shotsDone > 0 => creg = MessageCreg

C1_Witness ==
    /\ pc = "executing"
    /\ shotsDone = 2
    /\ message = <<0, 1>>
    /\ creg[0] = 0
    /\ creg[1] = 1

(***************************************************************************)
(* C2: gate selection is total and deterministic: once the encoding cell   *)
(* has run, exactly one of the four branches was taken, it is the branch   *)
(* of the message, and the operations appended between the entangling      *)
(* step and the barrier are those of that one branch and nothing else.     *)
(***************************************************************************)
MessageLabel ==
    CASE message = <<0, 0>> -> "00"
      [] message = <<0, 1>> -> "01"
      [] message = <<1, 0>> -> "10"
      [] message = <<1, 1>> -> "11"

NotebookState(m) ==
    CASE m = <<0, 0>> -> Vec(1, 0, 0, 1, 1)
      [] m = <<0, 1>> -> Vec(0, 1, 1, 0, 1)
      [] m = <<1, 0>> -> Vec(1, 0, 0, -1, 1)
      [] m = <<1, 1>> -> Vec(0, 1, -1, 0, 1)

C4_StatesAsStated == pc = "decode" => PostEncodingState = NotebookState(message)

(***************************************************************************)
(* C5: the four post-encoding states are orthonormal: the state prepared   *)
(* for the message of the run has norm 1 and its inner product with the    *)
(* state prepared for every other message is 0.                            *)
(***************************************************************************)
PreparedState(m) == Simulate(EntangleOps \o EncodingOps(m))

C5_Orthonormal ==
    pc = "decode" =>
      /\ InnerProduct(PostEncodingState, PostEncodingState) = Pow2(PostEncodingState.k)
      /\ \A m \in Messages \ {message} :
            InnerProduct(PostEncodingState, PreparedState(m)) = 0

C5_Witness ==
    /\ pc = "decode"
    /\ message = <<1, 0>>
    /\ PostEncodingState.k = 1
    /\ InnerProduct(PostEncodingState, PreparedState(<<0, 0>>)) = 0
    /\ InnerProduct(PostEncodingState, PostEncodingState) = 2

(***************************************************************************)
(* C6: encoding 00 appends no operation to the sender's qubit and leaves   *)
(* the shared entangled state as it was; the decode and measurement        *)
(* operations of the circuit, run directly after its entangling            *)
(* operations with no encoding gate and no barrier in between, give the    *)
(* outcome 00 with certainty.                                              *)
(***************************************************************************)
C6_IdentityEncoding ==
    /\ (Encoded /\ message = <<0, 0>>) =>
         /\ EncodingSegment = <<>>
         /\ BarrierIndex = Len(EntangleOps) + 1
         /\ PostEncodingState = SharedState
    /\ Built =>
         /\ Len(RawCircuit) = Len(circuit) - Len(EncodingSegment) - 1
         /\ Certain(Simulate(RawCircuit), Ket(0, 0))
         /\ Outcomes(ZeroState, ZeroCreg, RawCircuit) = {ZeroCreg}

C6_Witness ==
    /\ pc = "print"
    /\ message = <<0, 0>>
    /\ Len(circuit) = 7
    /\ RawCircuit = EntangleOps \o DecodeOps
    /\ PostEncodingState = Vec(1, 0, 0, 1, 1)

(***************************************************************************)
(* C7: the result of an execution with s >= 1 shots is a mapping with      *)
(* exactly one key, a bitstring of two characters, whose value is s:       *)
(* message 11 with 1024 shots gives {"11": 1024}, message 00 with 1024     *)
(* shots gives {"00": 1024}, and one shot gives one key with value 1.      *)
(***************************************************************************)
C7_SingleKeyResult ==
    result # <<>> =>
      /\ shots >= 1
      /\ Cardinality(DOMAIN result[1]) = 1
      /\ \A key \in DOMAIN result[1] :
            /\ Len(key) = 2
            /\ key \in [1 .. 2 -> Bit]
            /\ result[1][key] = shots
      /\ (message = <<1, 1>> /\ shots = NotebookShots) =>
            result[1] = (<<1, 1>> :> 1024)
      /\ (message = <<0, 0>> /\ shots = NotebookShots) =>
            result[1] = (<<0, 0>> :> 1024)
      /\ shots = 1 => \E key \in [1 .. 2 -> Bit] : result[1] = (key :> 1)

C7_Witness ==
    /\ pc = "plot"
    /\ message = <<1, 1>>
    /\ shots = NotebookShots
    /\ result = <<(<<1, 1>> :> 1024)>>

(***************************************************************************)
(* C8: after the entangling cell the circuit is H on q0 then CNOT from q0  *)
(* to q1, whatever the message, and the state it prepares from |00> is     *)
(* (|00> + |11>)/sqrt2: not a product of two single-qubit states, and      *)
(* maximally entangled (the sender's reduced state is the identity / 2).   *)
(* The cell has no failure outcome: from it the script always goes on to   *)
(* the encoding cell.                                                      *)
(***************************************************************************)
IsProduct(st) ==
    st.amp[Ket(0, 0)] * st.amp[Ket(1, 1)] = st.amp[Ket(0, 1)] * st.amp[Ket(1, 0)]

MaximallyEntangled(st) ==
    /\ st.amp[Ket(0, 0)] * st.amp[Ket(0, 0)] + st.amp[Ket(0, 1)] * st.amp[Ket(0, 1)]
         = st.amp[Ket(1, 0)] * st.amp[Ket(1, 0)] + st.amp[Ket(1, 1)] * st.amp[Ket(1, 1)]
    /\ st.amp[Ket(0, 0)] * st.amp[Ket(1, 0)] + st.amp[Ket(0, 1)] * st.amp[Ket(1, 1)] = 0
    /\ InnerProduct(st, st) = Pow2(st.k)

C8_EntangledPair ==
    /\ pc = "encode" =>
         /\ circuit = <<HGate(0), CnotGate(0, 1)>>
         /\ Simulate(circuit) = Vec(1, 0, 0, 1, 1)
         /\ ~IsProduct(Simulate(circuit))
         /\ MaximallyEntangled(Simulate(circuit))
    /\ pc \in {"aborted", "failed"} => Len(circuit) # Len(EntangleOps)

C8_Witness ==
    /\ pc = "encode"
    /\ message = <<1, 0>>
    /\ Simulate(circuit).amp[Ket(1, 1)] = 1
    /\ Simulate(circuit).k = 1

(***************************************************************************)
(* C9: for every message the finished circuit is H q0, CNOT q0->q1, the    *)
(* encoding gates of the message (at most two X or Z gates), barrier,      *)
(* CNOT q0->q1, H q0, measure q0->c[0], measure q1->c[1]; what precedes    *)
(* and what follows the encoding gates is the same for all messages, and   *)
(* no gate follows a measurement.  The printed OPENQASM lists the same     *)
(* operations in the same order.                                           *)
(***************************************************************************)
FixedPrefix == <<HGate(0), CnotGate(0, 1)>>

FixedSuffix ==
    <<Barrier, CnotGate(0, 1), HGate(0), Measure(0, 0), Measure(1, 1)>>

C9_FixedSequence ==
    /\ Built =>
         /\ Len(circuit) >= Len(FixedPrefix) + Len(FixedSuffix)
         /\ SubSeq(circuit, 1, Len(FixedPrefix)) = FixedPrefix
         /\ SubSeq(circuit, Len(circuit) - Len(FixedSuffix) + 1, Len(circuit))
              = FixedSuffix
         /\ Len(circuit) - Len(FixedPrefix) - Len(FixedSuffix) = Len(EncodingSegment)
         /\ Len(EncodingSegment) <= 2
         /\ \A i \in 1 .. Len(EncodingSegment) :
               EncodingSegment[i] \in {XGate(0), ZGate(0)}
         /\ \A i, j \in 1 .. Len(circuit) :
               (i < j /\ circuit[i].name = "measure") => circuit[j].name = "measure"
    /\ qasm # <<>> =>
         /\ Len(qasm) = 4 + Len(circuit)
         /\ SubSeq(qasm, 5, 6) = <<"h q[0];", "cx q[0],q[1];">>
         /\ SubSeq(qasm, Len(qasm) - 4, Len(qasm))
              = <<"barrier q[0],q[1];", "cx q[0],q[1];", "h q[0];",
                  "measure q[0] -> c[0];", "measure q[1] -> c[1];">>

C9_Witness ==
    /\ pc = "execute"
    /\ message = <<0, 1>>
    /\ circuit = FixedPrefix \o <<XGate(0)>> \o FixedSuffix
    /\ Len(qasm) = 12

(***************************************************************************)
(* C10 as stated: no single-qubit gate is ever applied to q1, and the only *)
(* operations of the circuit that touch q1 are the two CNOTs, as their     *)
(* target, and the measurement of q1.                                      *)
(***************************************************************************)
Touches(op, q) == \E i \in 1 .. Len(op.qargs) : op.qargs[i] = q

IsCnotOnto(op, q) == op.name = "cx" /\ op.qargs[2] = q

C10_OnlyCnotAndMeasureOnBob ==
    \A i \in 1 .. Len(circuit) :
       Touches(circuit[i], 1) =>
          \/ IsCnotOnto(circuit[i], 1)
          \/ circuit[i].name = "measure"

(***************************************************************************)
(* C10 amended: the encoding acts on q0 only; no single-qubit gate is ever *)
(* applied to q1, and the only operations of the circuit that touch q1 are *)
(* the two CNOTs, as their target, the barrier, which spans q0 and q1 and  *)
(* applies no gate, and the measurement of q1.                             *)
(***************************************************************************)
C10_BobUntouchedByEncoding ==
    /\ \A i \in 1 .. Len(circuit) :
          Touches(circuit[i], 1) =>
             \/ IsCnotOnto(circuit[i], 1)
             \/ circuit[i].name = "measure"
             \/ circuit[i] = Barrier
    /\ \A i \in 1 .. Len(circuit) :
          circuit[i].name \in {"h", "x", "z"} => circuit[i].qargs = <<0>>
    /\ Encoded =>
         /\ \A i \in 1 .. Len(EncodingSegment) : EncodingSegment[i].qargs = <<0>>
         /\ Cardinality({i \in 1 .. Len(circuit) : circuit[i].name = "barrier"}) = 1
    /\ Built =>
         /\ Cardinality({i \in 1 .. Len(circuit) : IsCnotOnto(circuit[i], 1)}) = 2
         /\ Cardinality({i \in 1 .. Len(circuit) :
                           circuit[i].name = "measure" /\ Touches(circuit[i], 1)}) = 1
         /\ Simulate(circuit) = Simulate(SubSeq(circuit, 1, BarrierIndex - 1)
                                         \o SubSeq(circuit, BarrierIndex + 1, Len(circuit)))

C10_Witness ==
    /\ pc = "print"
    /\ message = <<0, 1>>
    /\ circuit[3] = XGate(0)
    /\ circuit[4] = Barrier
    /\ Touches(circuit[4], 1)

(***************************************************************************)
(* C11: with a runtime version below 3.5 the first cell raises before any  *)
(* SDK object exists: the run never leaves the first cell except into the  *)
(* aborted state, where there is no circuit, no printed QASM, no           *)
(* execution, no result and no histogram.  With version 3.5 or greater,    *)
(* 3.5 itself included, the guard does not fire: the run is never aborted  *)
(* and the first cell completes.                                           *)
(***************************************************************************)
BelowThreeFive == pyver[1] < 3 \/ (pyver[1] = 3 /\ pyver[2] < 5)

NothingCreated ==
    /\ taken = {}
    /\ circuit = <<>>
    /\ qasm = <<>>
    /\ shots = 0
    /\ shotsDone = 0
    /\ counts = <<>>
    /\ result = <<>>
    /\ histogram = <<>>

C11_Witness ==
    /\ pc = "entangle"
    /\ pyver = <<3, 5>>
    /\ circuit = <<>>

PhaseRank(p) ==
    CASE p = "setup" -> 0
      [] p = "entangle" -> 1
      [] p = "encode" -> 2
      [] p = "decode" -> 3
      [] p = "print" -> 4
      [] p = "execute" -> 5
      [] p = "executing" -> 6
      [] p = "plot" -> 7
      [] p = "done" -> 8
      [] OTHER -> 9

Submitted == pc \in {"executing", "plot", "done", "failed"}

C12_OrderState ==
    /\ Submitted <=> shots # 0
    /\ Submitted => circuit = FixedPrefix \o EncodingSegment \o FixedSuffix
    /\ result # <<>> => (pc \in {"plot", "done"} /\ shotsDone = shots /\ result = <<counts>>)
    /\ histogram # <<>> => (pc = "done" /\ result # <<>> /\ histogram = result)
    /\ pc = "done" => histogram # <<>>

C12_OrderStep ==
    /\ message' = message
    /\ pc' # pc =>
         \/ PhaseRank(pc') = PhaseRank(pc) + 1
         \/ pc' \in {"aborted", "failed"}
    /\ Submitted => (circuit' = circuit /\ shots' = shots /\ pc' # "execute")
    /\ result # <<>> => result' = result
    /\ histogram # <<>> => histogram' = histogram

(* C12: the state and step conditions above hold throughout every run.     *)
C12_StrictPhaseOrder == [](C12_OrderState) /\ [][C12_OrderStep]_vars

C12_Witness ==
    /\ pc = "done"
    /\ shots = 2
    /\ shotsDone = 2
    /\ result # <<>>
    /\ histogram = result
    /\ Len(circuit) = 9

(***************************************************************************)
(* C13: a failure of the external execution is neither caught nor          *)
(* retried.  While the script waits, the execution may fail; every step    *)
(* that ends the wait without a result ends the run in the failed state    *)
(* and changes nothing else; in the failed state there is no result and    *)
(* no histogram, and no further step (no resubmission, no rendering) is    *)
(* possible.                                                               *)
(***************************************************************************)
C13_FailState ==
    /\ pc = "executing" => ENABLED ExecuteFail
    /\ pc = "failed" =>
         /\ shots # 0
         /\ result = <<>>
         /\ histogram = <<>>
         /\ ~ENABLED Next

C13_FailStep ==
    /\ (pc = "executing" /\ pc' # "executing" /\ result' = <<>>) =>
         /\ pc' = "failed"
         /\ UNCHANGED <<pyver, message, taken, circuit, qasm, shots, shotsDone,
                        creg, counts, result, histogram>>
    /\ pc = "failed" => UNCHANGED vars

(* C13: the failure conditions above hold throughout every run.            *)
C13_FailureEndsRun == [](C13_FailState) /\ [][C13_FailStep]_vars

C13_Witness ==
    /\ pc = "failed"
    /\ shots = 3
    /\ shotsDone = 1
    /\ result = <<>>
    /\ histogram = <<>>

(***************************************************************************)
(* C14: for message 11 the outcome does not depend on the order of the     *)
(* two Pauli gates.  The circuit has Z then X on q0; the same circuit      *)
(* with the two encoding gates in the other order, X then Z, prepares the  *)
(* same state multiplied by -1, and both circuits decode to c[0] = 1,      *)
(* c[1] = 1 with probability 1.                                            *)
(***************************************************************************)
Reverse(seq) == [i \in 1 .. Len(seq) |-> seq[Len(seq) + 1 - i]]

SwappedCircuit ==
    SubSeq(circuit, 1, Len(EntangleOps)) \o Reverse(EncodingSegment)
    \o SubSeq(circuit, BarrierIndex, Len(circuit))

SwappedState ==
    Simulate(SubSeq(circuit, 1, Len(EntangleOps)) \o Reverse(EncodingSegment))

Negated(st) == [st EXCEPT !.amp = [s \in Basis |-> -st.amp[s]]]

C14_OrderOnlyFlipsSign ==
    /\ (Encoded /\ message = <<1, 1>>) =>
         /\ EncodingSegment = <<ZGate(0), XGate(0)>>
         /\ Reverse(EncodingSegment) = <<XGate(0), ZGate(0)>>
         /\ SwappedState = Negated(PostEncodingState)
         /\ SwappedState # PostEncodingState
         /\ PostEncodingState = Vec(0, -1, 1, 0, 1)
    /\ (Built /\ message = <<1, 1>>) =>
         /\ Certain(Simulate(circuit), Ket(1, 1))
         /\ Certain(Simulate(SwappedCircuit), Ket(1, 1))
         /\ Simulate(SwappedCircuit) = Negated(Simulate(circuit))
         /\ Outcomes(ZeroState, ZeroCreg, circuit) = {[c \in Qubits |-> 1]}
         /\ Outcomes(ZeroState, ZeroCreg, SwappedCircuit) = {[c \in Qubits |-> 1]}

C14_Witness ==
    /\ pc = "print"
    /\ message = <<1, 1>>
    /\ SwappedCircuit[3] = XGate(0)
    /\ SwappedCircuit[4] = ZGate(0)
    /\ SwappedState = Vec(0, 1, -1, 0, 1)
    /\ Simulate(SwappedCircuit) = Vec(0, 0, 0, 1, 0)

====
